---- MODULE Spec2Model ----
(***************************************************************************)
(* TestRepository (cli-integ/lib/staging/codeartifact.ts): the sandbox     *)
(* repository manager, its garbage-collection sweep and the retry helper,  *)
(* run against a model of the CodeArtifact registry.                       *)
(*                                                                         *)
(* Granularity: JavaScript runs one task at a time and a task only yields  *)
(* at an await.  Every action below is one registry call being served      *)
(* together with the caller's code up to its next await, so tasks          *)
(* interleave exactly at the awaits of the source.                         *)
(***************************************************************************)
EXTENDS Integers, Sequences, FiniteSets

\* ------------------------------------------------------------- constants
COLLECT_BY_TAG == "collect-by"
REPO_LIFETIME_MS == 24 * 3600 * 1000
DEFAULT_DOMAIN == "test-cdk"
npmUpstream == "npm-upstream"
pypiUpstream == "pypi-upstream"
nugetUpstream == "nuget-upstream"
mavenUpstream == "maven-upstream"
RetryAttempts == 3

\* Error codes of the registry.  FATAL stands for every failure whose code
\* is not ResourceNotFoundException and that the registry state does not
\* explain (throttling, access denied, a network error).
RNF == "ResourceNotFoundException"
CONFLICT == "ConflictException"
FATAL == "InternalServerException"
OK == "ok"

\* ---------------------------------------------------------------- bounds
MaxOps == 2        \* operations started in all: the callers' and the sweeps
MaxTicks == 2      \* advances of the clock
MaxFaults == 1     \* failures of the registry for no reason of the state
PageSize == 3      \* repositories on one page of listRepositories
MaxScript == 5     \* length of the outcome script of the block given to retry
Now0 == 1000       \* Date.now() in the initial state

Callers == {"c1", "c2"}
Names == {"test-a", "test-b"}
OtherDomain == "other-domain"
TickSteps == {1, REPO_LIFETIME_MS}

\* The formats loginInformation() asks an endpoint for, the order in which
\* ensureUpstreams() ensures the upstream repositories, and the upstream list
\* prepare() gives to the sandbox repository (ensured last, as SandboxStep).
EndpointFormats == <<"npm", "maven", "nuget", "pypi">>
EnsureOrder == <<npmUpstream, mavenUpstream, nugetUpstream, pypiUpstream>>
SandboxUpstreams == {npmUpstream, pypiUpstream, nugetUpstream, mavenUpstream}
SandboxStep == Len(EnsureOrder) + 1

\* Every repository the model can hold, in the order the registry lists them.
AllRepos ==
  << <<OtherDomain, "old-x">>,
     <<DEFAULT_DOMAIN, mavenUpstream>>,
     <<DEFAULT_DOMAIN, npmUpstream>>,
     <<DEFAULT_DOMAIN, nugetUpstream>>,
     <<DEFAULT_DOMAIN, pypiUpstream>>,
     <<DEFAULT_DOMAIN, "test-a">>,
     <<DEFAULT_DOMAIN, "test-b">> >>
RepoKeys == {AllRepos[i] : i \in DOMAIN AllRepos}

\* ---------------------------------------------- strings and JS conversions
\* A string is the sequence of its UTF-16 code units.  Str(s) is the string
\* of the printable ASCII characters s, Code(c) the code unit of one: those
\* of U+0020..U+005F and of U+0061..U+007E, in their order.
AsciiLow ==
  <<" ", "!", "\"", "#", "$", "%", "&", "'", "(", ")", "*", "+", ",", "-", ".", "/",
    "0", "1", "2", "3", "4", "5", "6", "7", "8", "9", ":", ";", "<", "=", ">", "?",
    "@", "A", "B", "C", "D", "E", "F", "G", "H", "I", "J", "K", "L", "M", "N", "O",
    "P", "Q", "R", "S", "T", "U", "V", "W", "X", "Y", "Z", "[", "\\", "]", "^", "_">>
AsciiHigh ==
  <<"a", "b", "c", "d", "e", "f", "g", "h", "i", "j", "k", "l", "m", "n", "o",
    "p", "q", "r", "s", "t", "u", "v", "w", "x", "y", "z", "{", "|", "}", "~">>
Code(c) ==
  IF \E i \in DOMAIN AsciiLow : AsciiLow[i] = c
  THEN 31 + (CHOOSE i \in DOMAIN AsciiLow : AsciiLow[i] = c)
  ELSE 96 + (CHOOSE i \in DOMAIN AsciiHigh : AsciiHigh[i] = c)
RECURSIVE Str(_)
Str(s) == IF s = <<>> THEN <<>> ELSE <<Code(s[1])>> \o Str(Tail(s))

Digits == Str(<<"0", "1", "2", "3", "4", "5", "6", "7", "8", "9">>)
DigitChars == {Digits[i] : i \in DOMAIN Digits}
DigitValue(c) == CHOOSE d \in 0..9 : Digits[d + 1] = c

\* `${n}` for a non-negative integer n: its decimal digits, no leading zero.
RECURSIVE DecimalString(_)
DecimalString(n) ==
  IF n < 10 THEN <<Digits[n + 1]>>
  ELSE Append(DecimalString(n \div 10), Digits[(n % 10) + 1])

\* Numbers are kept up to MaxNumber, which is above every value the clock
\* takes: MaxNumber stands for every number from there on, Infinity included
\* (and -MaxNumber for those below), and says no more about them.
MaxNumber == 1000000000

\* The characters of the numeric literals.
Zero == Code("0")
Point == Code(".")
Minus == Code("-")
Signs == {Code("+"), Code("-")}
ExponentIndicators == {Code("e"), Code("E")}
HexIndicators == {Code("x"), Code("X")}
OctalIndicators == {Code("o"), Code("O")}
BinaryIndicators == {Code("b"), Code("B")}
Infinity == Str(<<"I", "n", "f", "i", "n", "i", "t", "y">>)

\* The value of character c as a digit in the base, -1 when it is none.
HexLower == Str(<<"a", "b", "c", "d", "e", "f">>)
HexUpper == Str(<<"A", "B", "C", "D", "E", "F">>)
RadixDigit(c, base) ==
  LET v == IF c \in DigitChars THEN DigitValue(c)
           ELSE IF \E i \in 1..6 : c \in {HexLower[i], HexUpper[i]}
           THEN 9 + (CHOOSE i \in 1..6 : c \in {HexLower[i], HexUpper[i]})
           ELSE -1
  IN IF v < base THEN v ELSE -1

\* acc * base + d, up to MaxNumber.
SatMulAdd(acc, base, d) ==
  IF acc > (MaxNumber - d) \div base THEN MaxNumber ELSE acc * base + d

\* The value of the first n characters of s, digits of the base.
RECURSIVE RadixPrefix(_, _, _)
RadixPrefix(s, n, base) ==
  IF n = 0 THEN 0
  ELSE CHOOSE v \in {SatMulAdd(acc, base, RadixDigit(s[n], base)) :
                       acc \in {RadixPrefix(s, n - 1, base)}} : TRUE
RadixValue(s, base) == RadixPrefix(s, Len(s), base)
DecimalValue(s) == RadixValue(s, 10)
AllDigits(s) == \A i \in DOMAIN s : s[i] \in DigitChars

\* v * 10^n, up to MaxNumber.
RECURSIVE Shift(_, _)
Shift(v, n) ==
  IF n = 0 THEN v
  ELSE CHOOSE r \in {IF w = 0 \/ w = MaxNumber THEN w
                      ELSE Shift(SatMulAdd(w, 10, 0), n - 1) : w \in {v}} : TRUE

\* A converted number: NaN, or the number with integer part val (its floor)
\* that is an integer itself (whole) or lies between val and val + 1.
NaN == [nan |-> TRUE, val |-> 0, whole |-> TRUE]
Num(v, w) == [nan |-> FALSE, val |-> v, whole |-> w]

\* The blanks Number() strips from both ends: the white space TAB, VT, FF,
\* SP, NBSP, ZWNBSP and the space separators U+1680, U+2000..U+200A, U+202F,
\* U+205F, U+3000, and the line terminators LF, CR, LS, PS.
StrWhiteSpace ==
  {9, 11, 12, 32, 160, 65279, 5760, 8239, 8287, 12288, 10, 13, 8232, 8233}
    \cup (8192..8202)
Trim(s) ==
  LET I == {i \in DOMAIN s : s[i] \notin StrWhiteSpace}
  IN IF I = {} THEN <<>>
     ELSE SubSeq(s, CHOOSE i \in I : \A j \in I : i <= j,
                    CHOOSE i \in I : \A j \in I : i >= j)

\* The place of the first character of s that is in C, Len(s) + 1 for none.
FirstIn(s, C) ==
  IF \E i \in DOMAIN s : s[i] \in C
  THEN CHOOSE i \in DOMAIN s : s[i] \in C /\ \A j \in 1..(i - 1) : s[j] \notin C
  ELSE Len(s) + 1

\* 0x.., 0o.., 0b.. (either case): the base, 0 for a string of another form.
NonDecimalBase(s) ==
  IF Len(s) < 3 \/ s[1] # Zero THEN 0
  ELSE IF s[2] \in HexIndicators THEN 16
  ELSE IF s[2] \in OctalIndicators THEN 8
  ELSE IF s[2] \in BinaryIndicators THEN 2
  ELSE 0
NonDecimal(s) ==
  IF \A i \in 3..Len(s) : RadixDigit(s[i], NonDecimalBase(s)) >= 0
  THEN Num(RadixPrefix(Tail(Tail(s)), Len(s) - 2, NonDecimalBase(s)), TRUE)
  ELSE NaN

\* The decimal numeral with the digits D and the decimal point after the
\* first P of them (P <= 0: zeros come first, P > Len(D): zeros follow), as
\* written, before it is rounded to a double: its integer part, whether it
\* has no fraction, the zeros its fraction starts with, and the digits of
\* its fraction (as numbers, the last one not 0).
IntegerPart(D, P) ==
  IF P <= 0 THEN 0
  ELSE IF P <= Len(D) THEN RadixPrefix(D, P, 10)
  ELSE Shift(DecimalValue(D), P - Len(D))
NoFraction(D, P) == \A i \in DOMAIN D : i > P => D[i] = Zero
FractionZeros(D, P) ==
  (CHOOSE i \in DOMAIN D :
      /\ i > P /\ D[i] # Zero
      /\ \A j \in DOMAIN D : (j > P /\ D[j] # Zero) => i <= j) - P - 1
Fraction(D, P) ==
  LET last == CHOOSE i \in DOMAIN D :
                 D[i] # Zero /\ \A j \in DOMAIN D : D[j] # Zero => j <= i
  IN SubSeq([i \in 1..(last - P) |->
               IF P + i >= 1 THEN DigitValue(D[P + i]) ELSE 0], 1, last - P)

\* The decimal digits of half the fraction 0.T, those of 0.T / 2^k, and
\* those of 2^-j (it has j digits).
HalveDigits(T) ==
  SubSeq([i \in 1..(Len(T) + 1) |->
            ((IF i > 1 THEN (T[i - 1] % 2) * 10 ELSE 0)
               + (IF i <= Len(T) THEN T[i] ELSE 0)) \div 2], 1, Len(T) + 1)
RECURSIVE Halved(_, _)
Halved(T, k) ==
  IF k = 0 THEN T
  ELSE IF k = 1 THEN HalveDigits(T)
  ELSE CHOOSE r \in {Halved(U, k - (k \div 2)) : U \in {Halved(T, k \div 2)}} : TRUE
PowHalf(j) == Halved(<<5>>, j - 1)

\* 1 - 0.F for the digits F of a fraction, the last one not 0.
Complement(F) ==
  SubSeq([i \in 1..Len(F) |-> IF i = Len(F) THEN 10 - F[i] ELSE 9 - F[i]], 1, Len(F))

\* 0.A <= 0.B for the digits A and B of two fractions.
LeqDigits(A, B) ==
  LET a(i) == IF i <= Len(A) THEN A[i] ELSE 0
      b(i) == IF i <= Len(B) THEN B[i] ELSE 0
      n == IF Len(A) > Len(B) THEN Len(A) ELSE Len(B)
  IN \A i \in 1..n : (a(i) > b(i)) => \E j \in 1..(i - 1) : a(j) < b(j)

\* The double next to a number with integer part I, 0 <= I < 2^30: in the
\* binade of I the doubles are 2^-(52 - k) apart, k the place of the first
\* bit of I, and below 1 they go down to 2^-1074.  A fraction of at most
\* half that step is rounded off, one that close to 1 is rounded up (a tie
\* goes to the even double, which is the integer).
Log2(I) == CHOOSE k \in 0..29 : 2^k <= I /\ I < 2^(k + 1)
UpBits(I) == IF I = 0 THEN 54 ELSE 53 - Log2(I)
DownBits(I) == IF I = 0 THEN 1075 ELSE 53 - Log2(I)
HalfPowers == SubSeq([j \in 1..54 |-> PowHalf(j)], 1, 54)
HalfPowerMin == PowHalf(DownBits(0))
HalfPower(j) == IF j = DownBits(0) THEN HalfPowerMin ELSE HalfPowers[j]
RoundedOff(F, j) == \E T \in {HalfPower(j)} : LeqDigits(F, T)
RoundFraction(I, z, F) ==
  IF RoundedOff(F, DownBits(I)) THEN Num(I, TRUE)
  ELSE IF z = 0 /\ RoundedOff(Complement(F), UpBits(I)) THEN Num(I + 1, TRUE)
  ELSE Num(I, FALSE)
RoundNumeral(D, P, I, z) ==
  IF z >= DownBits(I) THEN Num(I, TRUE)
  ELSE CHOOSE r \in {RoundFraction(I, z, F) : F \in {Fraction(D, P)}} : TRUE
Rounded(D, P, I) ==
  IF I >= MaxNumber THEN Num(MaxNumber, TRUE)
  ELSE IF NoFraction(D, P) THEN Num(I, TRUE)
  ELSE CHOOSE r \in {RoundNumeral(D, P, I, z) : z \in {FractionZeros(D, P)}} : TRUE
Double(D, P) == CHOOSE r \in {Rounded(D, P, I) : I \in {IntegerPart(D, P)}} : TRUE

\* Each stage of the conversion takes the values of the stage before as the
\* elements of one-element sets, so that each is computed once.

\* The exponent part ex of a literal, after its e or E: [+-]digits, at least
\* one digit.
ExponentDigits(ex) == IF ex # <<>> /\ ex[1] \in Signs THEN Tail(ex) ELSE ex
ExponentValue(ex, d) ==
  IF d = <<>> \/ ~AllDigits(d) THEN [ok |-> FALSE, val |-> 0]
  ELSE [ok |-> TRUE, val |-> IF ex[1] = Minus THEN -DecimalValue(d) ELSE DecimalValue(d)]
ExponentPart(u, e) ==
  IF e > Len(u) THEN [ok |-> TRUE, val |-> 0]
  ELSE CHOOSE r \in {ExponentValue(ex, d) :
                       ex \in {SubSeq(u, e + 1, Len(u))},
                       d \in {ExponentDigits(SubSeq(u, e + 1, Len(u)))}} : TRUE

\* The digits D of a mantissa with its point (if any) at place dot, and the
\* exponent part x: at least one digit.
MantissaValue(D, dot, x) ==
  IF D = <<>> \/ ~AllDigits(D) \/ ~x.ok THEN NaN
  ELSE CHOOSE r \in {Double(D, P) : P \in {(dot - 1) + x.val}} : TRUE
MantissaDigits(mant, dot) == SubSeq(mant, 1, dot - 1) \o SubSeq(mant, dot + 1, Len(mant))
Mantissa(mant, x) ==
  CHOOSE r \in {MantissaValue(D, dot, x) :
                  D \in {MantissaDigits(mant, FirstIn(mant, {Point}))},
                  dot \in {FirstIn(mant, {Point})}} : TRUE

\* An unsigned decimal literal: Infinity, or a mantissa and an optional
\* exponent part.
Unsigned(u) ==
  IF u = Infinity THEN Num(MaxNumber, TRUE)
  ELSE CHOOSE r \in {Mantissa(mant, x) :
                       mant \in {SubSeq(u, 1, FirstIn(u, ExponentIndicators) - 1)},
                       x \in {ExponentPart(u, FirstIn(u, ExponentIndicators))}} : TRUE

\* A decimal literal with its optional sign.
Signed(m, negative) ==
  IF m.nan \/ ~negative THEN m
  ELSE Num(IF m.whole THEN -m.val ELSE -m.val - 1, m.whole)
StrDecimal(s) ==
  CHOOSE r \in {Signed(m, s[1] = Minus) :
                  m \in {Unsigned(IF s[1] \in Signs THEN Tail(s) ELSE s)}} : TRUE

\* The literal t, stripped of its blanks.
StrNumericLiteral(t) ==
  IF t = <<>> THEN Num(0, TRUE)
  ELSE IF NonDecimalBase(t) # 0 THEN NonDecimal(t)
  ELSE StrDecimal(t)

\* Number(s): blanks are stripped from both ends; the empty string is 0; a
\* decimal literal (sign, point and exponent optional, Infinity) is the
\* double next to its value, an unsigned hexadecimal, octal or binary
\* literal is its value; any other string is NaN.
Number(s) == CHOOSE r \in {StrNumericLiteral(t) : t \in {Trim(s)}} : TRUE

\* a < b of JavaScript for a converted number a and an integer b: a
\* comparison with NaN is false, and a number is below an integer exactly
\* when its integer part is.
LessThan(a, b) == ~a.nan /\ a.val < b

Tag(k, v) == [key |-> k, value |-> v]

\* ------------------------------------------------------------------ state
VARIABLES
  now,       \* Date.now()
  ticks,     \* how often the clock has advanced
  domains,   \* the domains of the registry
  repos,     \* the repositories of the registry, by <<domain, name>>
  caller,    \* each caller's running TestRepository operation
  log,       \* each caller's finished operations, in order
  gc,        \* the task running TestRepository.gc()
  faults,    \* registry calls that have failed for no reason of the state
  rt         \* a run of retry(block) on a scripted block

vars == <<now, ticks, domains, repos, caller, log, gc, faults, rt>>

\* A repository: its tags, its upstream names, whether an external connection
\* is associated, and (history) the caller whose prepare() created it and the
\* clock value that prepare() read for the tag: "none" and -1 for a
\* repository that was there from the start, -1 for an upstream.
NoRepo == [exists |-> FALSE, tags |-> <<>>, upstreams |-> {}, external |-> FALSE,
           stamp |-> -1, by |-> "none"]
Repo(tags, upstreams, external, stamp, by) ==
  [exists |-> TRUE, tags |-> tags, upstreams |-> upstreams, external |-> external,
   stamp |-> stamp, by |-> by]

IdleCaller == [pc |-> "idle", op |-> "none", name |-> "", step |-> 0, attempts |-> 0,
               tags |-> <<>>, stamp |-> -1, found |-> FALSE, created |-> FALSE]
\* The sweep: its position, its locals (nextToken, page, the index of repo in
\* the page), how it ended, and (history) the sweeps started, the
\* repositories listed and what the sweep did with each one it examined.
IdleGc == [pc |-> "idle", nextToken |-> 0, page |-> [repositories |-> <<>>, nextToken |-> 0],
           i |-> 0, sweeps |-> 0, result |-> "none", listed |-> <<>>, seen |-> <<>>]
IdleRetry == [pc |-> "idle", script |-> <<>>, attempts |-> 0, invocations |-> 0,
              result |-> "none", value |-> 0, sleeps |-> 0]

\* The registry before the first call: an account never used, or the shared
\* domain with its four connected upstreams and leftovers of earlier runs.
FreshRepos == [k \in RepoKeys |-> NoRepo]
UsedRepos(ta, tb, tx) ==
  [k \in RepoKeys |->
     IF k[1] = DEFAULT_DOMAIN /\ k[2] \in SandboxUpstreams THEN Repo(<<>>, {}, TRUE, -1, "none")
     ELSE IF k = <<DEFAULT_DOMAIN, "test-a">> THEN ta
     ELSE IF k = <<DEFAULT_DOMAIN, "test-b">> THEN tb
     ELSE tx]


\* The leftovers the model starts from: the tags of test-a, of test-b and of
\* the repository of the other domain (0: no such repository).
OldTagSets ==
  << <<>>,
     <<Tag(COLLECT_BY_TAG, DecimalString(Now0 - 1))>>,
     <<Tag(COLLECT_BY_TAG, DecimalString(Now0))>>,
     <<Tag(COLLECT_BY_TAG, Str(<<"0">>) \o DecimalString(Now0 + 1))>>,
     <<Tag(COLLECT_BY_TAG, Str(<<"z">>))>>,
     <<Tag(COLLECT_BY_TAG, <<>>)>>,
     <<Tag("testing", Str(<<"0">>)),
       Tag(COLLECT_BY_TAG, DecimalString(Now0 + REPO_LIFETIME_MS))>>,
     <<Tag("testing", Str(<<"0">>))>>,
     <<Tag(COLLECT_BY_TAG, Str(<<"1", "e", "3">>))>>,
     <<Tag(COLLECT_BY_TAG, <<160>> \o Str(<<"9", "9", "9", " ">>))>>,
     <<Tag(COLLECT_BY_TAG, Str(<<"0", "x", "3", "E", "7">>))>>,
     <<Tag(COLLECT_BY_TAG, Str(<<"1", "0", "0", "0", ".", "5">>))>>,
     <<Tag(COLLECT_BY_TAG, Str(<<"9", "9", "9", ".", "9", "9", "9", "9", "9", "9", "9",
                                 "9", "9", "9", "9", "9", "9", "9">>))>>,
     <<Tag(COLLECT_BY_TAG, Str(<<"-", "I", "n", "f", "i", "n", "i", "t", "y">>))>> >>
Leftover(i) ==
  IF i = 0 THEN NoRepo ELSE Repo(OldTagSets[i], SandboxUpstreams, FALSE, -1, "none")
InitLeftovers ==
  { <<0, 0, 0>>, <<2, 1, 2>>, <<3, 5, 0>>, <<4, 6, 0>>, <<7, 8, 3>>,
    <<9, 10, 11>>, <<12, 13, 14>> }

InitRegistry ==
  \/ /\ domains = {}
     /\ repos = FreshRepos
  \/ /\ domains = {DEFAULT_DOMAIN, OtherDomain}
     /\ \E l \in InitLeftovers :
          repos = UsedRepos(Leftover(l[1]), Leftover(l[2]), Leftover(l[3]))

Init ==
  /\ now = Now0
  /\ ticks = 0
  /\ InitRegistry
  /\ caller = [p \in Callers |-> IdleCaller]
  /\ log = [p \in Callers |-> <<>>]
  /\ gc = IdleGc
  /\ faults = 0
  /\ rt = IdleRetry

\* --------------------------------------------------------------- registry
\* What the registry answers to a call in the current state.
describeDomain(d) == IF d \in domains THEN OK ELSE RNF
createDomain(d) == IF d \in domains THEN CONFLICT ELSE OK
describeRepository(d, n) ==
  IF d \in domains /\ repos[<<d, n>>].exists THEN OK ELSE RNF
createRepository(d, n) ==
  IF d \notin domains THEN RNF
  ELSE IF repos[<<d, n>>].exists THEN CONFLICT ELSE OK
associateExternalConnection(d, n) ==
  IF d \in domains /\ repos[<<d, n>>].exists THEN OK ELSE RNF
deleteRepository(d, n) ==
  IF d \in domains /\ repos[<<d, n>>].exists THEN OK ELSE RNF
getAuthorizationToken(d) == IF d \in domains THEN OK ELSE RNF
getRepositoryEndpoint(d, n) ==
  IF d \in domains /\ repos[<<d, n>>].exists THEN OK ELSE RNF

listTagsForResource(k) ==
  IF k[1] \in domains /\ repos[k].exists THEN OK ELSE RNF

\* listRepositories({ nextToken }): the repositories of the account (of every
\* domain) in listing order, PageSize to a page.  The token is the position
\* of the last repository of the page before, 0 for none.
PositionsAfter(token) ==
  {i \in DOMAIN AllRepos : i > token /\ repos[AllRepos[i]].exists}
Least(S) == CHOOSE m \in S : \A x \in S : m <= x
RECURSIVE FirstOf(_, _)
FirstOf(S, n) ==
  IF n = 0 \/ S = {} THEN <<>>
  ELSE <<Least(S)>> \o FirstOf(S \ {Least(S)}, n - 1)
listRepositories(token) ==
  LET S == PositionsAfter(token)
      pg == FirstOf(S, PageSize)
  IN [repositories |-> [j \in 1..Len(pg) |-> AllRepos[pg[j]]],
      nextToken |-> IF Cardinality(S) > PageSize THEN pg[Len(pg)] ELSE 0]

\* A call is answered as the state says, or fails with FATAL while the
\* fault budget lasts.
Answers(real) == {real} \cup (IF faults < MaxFaults THEN {FATAL} ELSE {})
Charge(real, res) == faults' = (IF res = real THEN faults ELSE faults + 1)

\* The same for the block of a retry with `attempts` retries left: the
\* failures of one retry are one outage and are charged once, with the first.
AnswersRetry(real, attempts) ==
  {real} \cup (IF faults < MaxFaults \/ attempts < RetryAttempts THEN {FATAL} ELSE {})
ChargeRetry(real, res, attempts) ==
  faults' = (IF res # real /\ attempts = RetryAttempts THEN faults + 1 ELSE faults)

\* ---------------------------------------------------------- TestRepository
\* domainExists() / repositoryExists(): the describe call succeeded (true),
\* failed with ResourceNotFoundException (false), or failed otherwise (throw).
\* (Variant: the probe's promise tested without await, which is always truthy.)
existsUnawaited(res) == "true"
\* (Variant: a probe without the catch block, not-found is thrown.)
existsNotFoundThrows(res) == IF res = OK THEN "true" ELSE "throw"
\* (Variant: a catch block that returns false for every error.)
existsSwallowsAll(res) == IF res = OK THEN "true" ELSE "false"
exists(res) ==
  IF res = OK THEN "true" ELSE IF res # RNF THEN "throw" ELSE "false"

\* The catch block of delete(): rethrow unless ResourceNotFoundException.
\* (Variant: a catch block that rethrows every error.)
deleteRethrowsAll(code) == TRUE
\* (Variant: a catch block that rethrows nothing.)
deleteSwallowsAll(code) == FALSE
deleteRethrows(code) == code # RNF

\* The catch block of retry(): `if (attempts-- === 0) { throw e; }`.
\* (Variants: `--attempts === 0`, a catch block that never retries, and
\* `attempts-- < 0`.)
retryCatchPreDecrement(attempts) ==
  [rethrow |-> attempts - 1 = 0, attempts |-> attempts - 1]
retryCatchNoRetry(attempts) == [rethrow |-> TRUE, attempts |-> attempts - 1]
retryCatchOneMore(attempts) == [rethrow |-> attempts < 0, attempts |-> attempts - 1]
retryCatch(attempts) == [rethrow |-> attempts = 0, attempts |-> attempts - 1]

\* The tags prepare() gives to the sandbox repository, computed at time t.
\* (Variant: the tag without the lifetime added.)
prepareTagsNoLifetime(t) == <<Tag(COLLECT_BY_TAG, DecimalString(t))>>
prepareTags(t) == <<Tag(COLLECT_BY_TAG, DecimalString(t + REPO_LIFETIME_MS))>>

\* ensureRepository() on a repository that exists returns at once: no call
\* is made and the repository r stays as it is.
\* (Variant: the repository found is given the tags of this call.)
ensureExistingRetagged(r, c) == [r EXCEPT !.tags = c.tags]
ensureExisting(r, c) == r

\* The repository ensureRepository() is working on.
Target(c) == IF c.step = SandboxStep THEN c.name ELSE EnsureOrder[c.step]

\* Operations the callers have started.
Started ==
  LET n(p) == Len(log[p]) + (IF caller[p].pc = "idle" THEN 0 ELSE 1)
  IN n("c1") + n("c2") + gc.sweeps

\* Caller p may start an operation.  The callers are interchangeable, so the
\* second one is let start only once the first has started something.
MayStart(p) ==
  /\ caller[p].pc = "idle"
  /\ Started < MaxOps
  /\ p = "c2" => (log["c1"] # <<>> \/ caller["c1"].pc # "idle")

\* A task whose next step reads Date.now(): ensureRepository() returning for
\* the last upstream, or the sweep reading a repository's tags.
ClockRead ==
  \/ \E p \in Callers : /\ caller[p].step + 1 = SandboxStep
                        /\ caller[p].pc \in {"describeRepository",
                                             "associateExternalConnection"}
  \/ gc.pc = "listTagsForResource"

\* What the log keeps of a finished operation: how it ended (OK or the error
\* thrown), the call and step it ended at, whether the probe of the sandbox
\* (prepare) or deleteRepository (delete) found the repository, and whether
\* createRepository was issued for the sandbox.
Entry(c, result) ==
  [op |-> c.op, name |-> c.name, result |-> result, at |-> c.pc, step |-> c.step,
   found |-> c.found, created |-> c.created, stamp |-> c.stamp]

Finish(p, c, result) ==
  /\ log' = [log EXCEPT ![p] = Append(@, Entry(c, result))]
  /\ caller' = [caller EXCEPT ![p] = IdleCaller]

Continue(p, c) ==
  /\ caller' = [caller EXCEPT ![p] = c]
  /\ UNCHANGED log

\* prepare() after ensureDomain() has returned: ensureUpstreams() starts.
\* (Variant: ensureUpstreams() left out, the sandbox is ensured at once.)
EnsureUpstreamsSkipped(p, c) ==
  Continue(p, [c EXCEPT !.pc = "describeRepository", !.step = SandboxStep,
                        !.tags = prepareTags(now), !.stamp = now])
EnsureUpstreams(p, c) ==
  Continue(p, [c EXCEPT !.pc = "describeRepository", !.step = 1])

\* prepare() after ensureRepository() has returned for c.step: the next
\* upstream, then the sandbox repository with its tags (Date.now() is read
\* when the argument is built, before the probe), then prepare() returns.
EnsureReturned(p, c) ==
  IF c.step = SandboxStep THEN Finish(p, c, OK)
  ELSE IF c.step + 1 = SandboxStep
  THEN Continue(p, [c EXCEPT !.pc = "describeRepository", !.step = SandboxStep,
                             !.tags = prepareTags(now), !.stamp = now])
  ELSE Continue(p, [c EXCEPT !.pc = "describeRepository", !.step = c.step + 1])

\* newRandom() / newWithName(name): a handle is made and prepare() called.
CallPrepare(p, name) ==
  /\ MayStart(p)
  /\ caller' = [caller EXCEPT ![p] =
                  [IdleCaller EXCEPT !.pc = "describeDomain", !.op = "prepare",
                                     !.name = name]]
  /\ UNCHANGED <<now, ticks, domains, repos, log, gc, faults, rt>>

\* ensureDomain(): the probe.
EnsureDomainProbe(p) ==
  /\ caller[p].op = "prepare"
  /\ caller[p].pc = "describeDomain"
  /\ \E res \in Answers(describeDomain(DEFAULT_DOMAIN)) :
       /\ Charge(describeDomain(DEFAULT_DOMAIN), res)
       /\ CASE exists(res) = "true" -> EnsureUpstreams(p, caller[p])
            [] exists(res) = "false" ->
                 Continue(p, [caller[p] EXCEPT !.pc = "createDomain"])
            [] OTHER -> Finish(p, caller[p], res)
  /\ UNCHANGED <<now, ticks, domains, repos, gc, rt>>

\* ensureDomain(): createDomain.
EnsureDomainCreate(p) ==
  /\ caller[p].pc = "createDomain"
  /\ \E res \in Answers(createDomain(DEFAULT_DOMAIN)) :
       /\ Charge(createDomain(DEFAULT_DOMAIN), res)
       /\ IF res = OK
          THEN /\ domains' = domains \cup {DEFAULT_DOMAIN}
               /\ EnsureUpstreams(p, caller[p])
          ELSE /\ UNCHANGED domains
               /\ Finish(p, caller[p], res)
  /\ UNCHANGED <<now, ticks, repos, gc, rt>>

\* ensureRepository(): the probe.
EnsureRepositoryProbe(p) ==
  /\ caller[p].pc = "describeRepository"
  /\ LET c == caller[p]
         real == describeRepository(DEFAULT_DOMAIN, Target(c))
     IN \E res \in Answers(real) :
          /\ Charge(real, res)
          /\ LET d == IF c.step = SandboxStep
                      THEN [c EXCEPT !.found = (exists(res) = "true")]
                      ELSE c
                 k == <<DEFAULT_DOMAIN, Target(c)>>
             IN CASE exists(res) = "true" ->
                       /\ repos' = [repos EXCEPT ![k] = ensureExisting(@, c)]
                       /\ EnsureReturned(p, d)
                  [] exists(res) = "false" ->
                       /\ UNCHANGED repos
                       /\ Continue(p, [d EXCEPT !.pc = "createRepository"])
                  [] OTHER ->
                       /\ UNCHANGED repos
                       /\ Finish(p, d, res)
  /\ UNCHANGED <<now, ticks, domains, gc, rt>>

\* ensureRepository(): createRepository, then retry(associate...) for an
\* upstream (options.external is set for the upstreams only).
EnsureRepositoryCreate(p) ==
  /\ caller[p].pc = "createRepository"
  /\ LET c == caller[p]
         k == <<DEFAULT_DOMAIN, Target(c)>>
         real == createRepository(DEFAULT_DOMAIN, Target(c))
         d == IF c.step = SandboxStep THEN [c EXCEPT !.created = TRUE] ELSE c
     IN \E res \in Answers(real) :
          /\ Charge(real, res)
          /\ IF res # OK
             THEN /\ UNCHANGED repos
                  /\ Finish(p, d, res)
             ELSE IF c.step = SandboxStep
             THEN /\ repos' = [repos EXCEPT ![k] =
                                 Repo(c.tags, SandboxUpstreams, FALSE, c.stamp, p)]
                  /\ EnsureReturned(p, d)
             ELSE /\ repos' = [repos EXCEPT ![k] = Repo(<<>>, {}, FALSE, -1, p)]
                  /\ Continue(p, [d EXCEPT !.pc = "associateExternalConnection",
                                           !.attempts = RetryAttempts])
  /\ UNCHANGED <<now, ticks, domains, gc, rt>>

\* retry(): one invocation of the block, associateExternalConnection.
RetryAssociate(p) ==
  /\ caller[p].pc = "associateExternalConnection"
  /\ LET c == caller[p]
         k == <<DEFAULT_DOMAIN, Target(c)>>
         real == associateExternalConnection(DEFAULT_DOMAIN, Target(c))
     IN \E res \in AnswersRetry(real, c.attempts) :
          /\ ChargeRetry(real, res, c.attempts)
          /\ IF res = OK
             THEN /\ repos' = [repos EXCEPT ![k].external = TRUE]
                  /\ EnsureReturned(p, c)
             ELSE /\ UNCHANGED repos
                  /\ IF retryCatch(c.attempts).rethrow
                     THEN Finish(p, c, res)
                     ELSE Continue(p, [c EXCEPT !.pc = "sleep",
                                        !.attempts = retryCatch(c.attempts).attempts])
  /\ UNCHANGED <<now, ticks, domains, gc, rt>>

\* retry(): sleep(500) is over.  How far the clock advanced meanwhile is Tick's.
RetrySleep(p) ==
  /\ caller[p].pc = "sleep"
  /\ caller' = [caller EXCEPT ![p].pc = "associateExternalConnection"]
  /\ UNCHANGED <<now, ticks, domains, repos, log, gc, faults, rt>>

\* existing(name).delete() is called.
CallDelete(p, name) ==
  /\ MayStart(p)
  /\ caller' = [caller EXCEPT ![p] =
                  [IdleCaller EXCEPT !.pc = "deleteRepository", !.op = "delete",
                                     !.name = name]]
  /\ UNCHANGED <<now, ticks, domains, repos, log, gc, faults, rt>>

\* delete(): deleteRepository and the catch block.
Delete(p) ==
  /\ caller[p].op = "delete"
  /\ caller[p].pc = "deleteRepository"
  /\ LET c == caller[p]
         k == <<DEFAULT_DOMAIN, c.name>>
         real == deleteRepository(DEFAULT_DOMAIN, c.name)
     IN \E res \in Answers(real) :
          /\ Charge(real, res)
          /\ IF res = OK
             THEN /\ repos' = [repos EXCEPT ![k] = NoRepo]
                  /\ Finish(p, [c EXCEPT !.found = TRUE], OK)
             ELSE /\ UNCHANGED repos
                  /\ Finish(p, c, IF deleteRethrows(res) THEN res ELSE OK)
  /\ UNCHANGED <<now, ticks, domains, gc, rt>>

\* loginInformation() is called on a handle.
CallLogin(p, name) ==
  /\ MayStart(p)
  /\ caller' = [caller EXCEPT ![p] =
                  [IdleCaller EXCEPT !.pc = "getAuthorizationToken",
                                     !.op = "loginInformation", !.name = name]]
  /\ UNCHANGED <<now, ticks, domains, repos, log, gc, faults, rt>>

\* loginInformation(): getAuthorizationToken.
LoginToken(p) ==
  /\ caller[p].pc = "getAuthorizationToken"
  /\ \E res \in Answers(getAuthorizationToken(DEFAULT_DOMAIN)) :
       /\ Charge(getAuthorizationToken(DEFAULT_DOMAIN), res)
       /\ IF res = OK
          THEN Continue(p, [caller[p] EXCEPT !.pc = "getRepositoryEndpoint", !.step = 1])
          ELSE Finish(p, caller[p], res)
  /\ UNCHANGED <<now, ticks, domains, repos, gc, rt>>

\* loginInformation(): getRepositoryEndpoint for npm, maven, nuget and pypi.
LoginEndpoint(p) ==
  /\ caller[p].pc = "getRepositoryEndpoint"
  /\ LET c == caller[p]
         real == getRepositoryEndpoint(DEFAULT_DOMAIN, c.name)
     IN \E res \in Answers(real) :
          /\ Charge(real, res)
          /\ IF res # OK THEN Finish(p, c, res)
             ELSE IF c.step = Len(EndpointFormats) THEN Finish(p, c, OK)
             ELSE Continue(p, [c EXCEPT !.step = c.step + 1])
  /\ UNCHANGED <<now, ticks, domains, repos, gc, rt>>

\* ------------------------------------------------------ TestRepository.gc
\* The tag the sweep looks for: key collect-by and Number(value) < Date.now().
\* (Variant: the comparison with <= instead of <.)
collectableOrEqual(tags, t) ==
  \E j \in DOMAIN tags :
     /\ tags[j].key = COLLECT_BY_TAG
     /\ ~Number(tags[j].value).nan
     /\ \/ Number(tags[j].value).val < t
        \/ Number(tags[j].value).val = t /\ Number(tags[j].value).whole
\* (Variant: every repository taken for collectable.)
collectableAll(tags, t) == TRUE
collectable(tags, t) ==
  \E j \in DOMAIN tags :
     tags[j].key = COLLECT_BY_TAG /\ LessThan(Number(tags[j].value), t)

\* gc() returns or throws.
GcReturn(g, result) == gc' = [g EXCEPT !.pc = "idle", !.result = result]

\* gc() has a page: its first repository, or the end of the do-while body.
GcPage(g) ==
  IF g.page.repositories # <<>>
  THEN gc' = [g EXCEPT !.pc = "listTagsForResource", !.i = 1]
  ELSE IF g.page.nextToken # 0
  THEN gc' = [g EXCEPT !.pc = "listRepositories", !.nextToken = g.page.nextToken]
  ELSE GcReturn([g EXCEPT !.nextToken = 0], OK)

\* gc() is done with repository g.i of the page: the next one, the next page
\* (while (nextToken)), or the return.
\* (Variant: the sweep returns after the first page.)
GcNextRepoNoPaging(g) ==
  IF g.i < Len(g.page.repositories)
  THEN gc' = [g EXCEPT !.pc = "listTagsForResource", !.i = g.i + 1]
  ELSE GcReturn([g EXCEPT !.nextToken = 0], OK)
GcNextRepo(g) ==
  IF g.i < Len(g.page.repositories)
  THEN gc' = [g EXCEPT !.pc = "listTagsForResource", !.i = g.i + 1]
  ELSE IF g.page.nextToken # 0
  THEN gc' = [g EXCEPT !.pc = "listRepositories", !.nextToken = g.page.nextToken]
  ELSE GcReturn([g EXCEPT !.nextToken = 0], OK)

\* TestRepository.gc() is called.
GcCall ==
  /\ gc.pc = "idle"
  /\ Started < MaxOps
  /\ gc' = [IdleGc EXCEPT !.pc = "describeDomain", !.sweeps = gc.sweeps + 1]
  /\ UNCHANGED <<now, ticks, domains, repos, caller, log, faults, rt>>

\* gc(): existing('*dummy*').domainExists().
GcDomainProbe ==
  /\ gc.pc = "describeDomain"
  /\ \E res \in Answers(describeDomain(DEFAULT_DOMAIN)) :
       /\ Charge(describeDomain(DEFAULT_DOMAIN), res)
       /\ CASE exists(res) = "true" -> gc' = [gc EXCEPT !.pc = "listRepositories"]
            [] exists(res) = "false" -> GcReturn(gc, OK)
            [] OTHER -> GcReturn(gc, res)
  /\ UNCHANGED <<now, ticks, domains, repos, caller, log, rt>>

\* gc(): listRepositories({ nextToken }).
GcListRepositories ==
  /\ gc.pc = "listRepositories"
  /\ \E res \in Answers(OK) :
       /\ Charge(OK, res)
       /\ IF res # OK THEN GcReturn(gc, res)
          ELSE LET page == listRepositories(gc.nextToken)
               IN GcPage([gc EXCEPT !.page = page,
                                    !.listed = @ \o page.repositories])
  /\ UNCHANGED <<now, ticks, domains, repos, caller, log, rt>>

\* gc(): listTagsForResource, the search for a collectable tag, and the
\* decision to delete.
GcListTags ==
  /\ gc.pc = "listTagsForResource"
  /\ LET k == gc.page.repositories[gc.i]
         real == listTagsForResource(k)
     IN \E res \in Answers(real) :
          /\ Charge(real, res)
          /\ IF res # OK THEN GcReturn(gc, res)
             ELSE LET col == collectable(repos[k].tags, now)
                      g == [gc EXCEPT !.seen = Append(@,
                              [key |-> k, at |-> now, tags |-> repos[k].tags,
                               stamp |-> repos[k].stamp,
                               outcome |-> IF col THEN "pending" ELSE "kept"])]
                  IN IF col THEN gc' = [g EXCEPT !.pc = "deleteRepository"]
                     ELSE GcNextRepo(g)
  /\ UNCHANGED <<now, ticks, domains, repos, caller, log, rt>>

\* gc(): deleteRepository of the collectable repository.
GcDeleteRepository ==
  /\ gc.pc = "deleteRepository"
  /\ LET k == gc.page.repositories[gc.i]
         real == deleteRepository(k[1], k[2])
     IN \E res \in Answers(real) :
          /\ Charge(real, res)
          /\ LET g == [gc EXCEPT !.seen[Len(gc.seen)].outcome =
                                    IF res = OK THEN "deleted" ELSE res]
             IN IF res = OK
                THEN /\ repos' = [repos EXCEPT ![k] = NoRepo]
                     /\ GcNextRepo(g)
                ELSE /\ UNCHANGED repos
                     /\ GcReturn(g, res)
  /\ UNCHANGED <<now, ticks, domains, caller, log, rt>>

\* The clock advances.  Only the values Date.now() returns matter, so time
\* is let pass only right before a step that may read the clock.
Tick(d) ==
  /\ ticks < MaxTicks
  /\ ClockRead
  /\ now' = now + d
  /\ ticks' = ticks + 1
  /\ UNCHANGED <<domains, repos, caller, log, gc, faults, rt>>

Next ==
  \/ \E p \in Callers, n \in Names : CallPrepare(p, n)
  \/ \E p \in Callers : EnsureDomainProbe(p)
  \/ \E p \in Callers : EnsureDomainCreate(p)
  \/ \E p \in Callers : EnsureRepositoryProbe(p)
  \/ \E p \in Callers : EnsureRepositoryCreate(p)
  \/ \E p \in Callers : RetryAssociate(p)
  \/ \E p \in Callers : RetrySleep(p)
  \/ \E p \in Callers, n \in Names : CallDelete(p, n)
  \/ \E p \in Callers : Delete(p)
  \/ \E p \in Callers, n \in Names : CallLogin(p, n)
  \/ \E p \in Callers : LoginToken(p)
  \/ \E p \in Callers : LoginEndpoint(p)
  \/ GcCall
  \/ GcDomainProbe
  \/ GcListRepositories
  \/ GcListTags
  \/ GcDeleteRepository
  \/ \E d \in TickSteps : Tick(d)

Spec == Init /\ [][Next]_vars

\* ------------------------------------------------------------------ retry
\* retry(block) on its own, for a block whose invocations end as a script
\* says: invocation j returns the value j where the script says OK and throws
\* the error j where it says FATAL.
Scripts == [1..MaxScript -> {OK, FATAL}]
blockOutcome(script, j) == script[IF j > Len(script) THEN Len(script) ELSE j]

InitRetry ==
  /\ now = Now0
  /\ ticks = 0
  /\ domains = {}
  /\ repos = FreshRepos
  /\ caller = [p \in Callers |-> IdleCaller]
  /\ log = [p \in Callers |-> <<>>]
  /\ gc = IdleGc
  /\ faults = 0
  /\ \E script \in Scripts :
       rt = [IdleRetry EXCEPT !.pc = "block", !.script = script,
                              !.attempts = RetryAttempts]

\* retry(): `return await block()` and the catch block.
RetryBlock ==
  /\ rt.pc = "block"
  /\ LET j == rt.invocations + 1
         r == [rt EXCEPT !.invocations = j, !.value = j]
     IN IF blockOutcome(rt.script, j) = OK
        THEN rt' = [r EXCEPT !.pc = "done", !.result = "returned"]
        ELSE IF retryCatch(rt.attempts).rethrow
        THEN rt' = [r EXCEPT !.pc = "done", !.result = "thrown"]
        ELSE rt' = [r EXCEPT !.pc = "sleep", !.sleeps = @ + 1,
                             !.attempts = retryCatch(rt.attempts).attempts]
  /\ UNCHANGED <<now, ticks, domains, repos, caller, log, gc, faults>>

\* retry(): sleep(500) is over, the loop goes round.
RetryWake ==
  /\ rt.pc = "sleep"
  /\ rt' = [rt EXCEPT !.pc = "block"]
  /\ UNCHANGED <<now, ticks, domains, repos, caller, log, gc, faults>>

NextRetry == RetryBlock \/ RetryWake

SpecRetry == InitRetry /\ [][NextRetry]_vars

\* --------------------------------------------------------------- gc alone
\* TestRepository.gc() with no other actor and a registry that fails no
\* call: the callers stay idle and the fault budget is spent from the start.
InitGc ==
  /\ now = Now0
  /\ ticks = 0
  /\ InitRegistry
  /\ caller = [p \in Callers |-> IdleCaller]
  /\ log = [p \in Callers |-> <<>>]
  /\ gc = IdleGc
  /\ faults = MaxFaults
  /\ rt = IdleRetry

\* A step of a sweep under way: the registry answers the pending call and
\* the continuation after the await runs.
GcStep ==
  \/ GcDomainProbe
  \/ GcListRepositories
  \/ GcListTags
  \/ GcDeleteRepository

NextGc ==
  \/ GcCall
  \/ GcStep
  \/ \E d \in TickSteps : Tick(d)

\* Every call is answered and the event loop runs the continuation.
SpecGc == InitGc /\ [][NextGc]_vars /\ WF_vars(GcStep)

\* ----------------------------------------------------------------- claims
Errors == {RNF, CONFLICT, FATAL}
Key(n) == <<DEFAULT_DOMAIN, n>>

\* Caller p is the only actor so far: no other caller and no sweep has
\* started anything, and no call has failed for no reason of the state.
Solo(p) ==
  /\ faults = 0
  /\ gc.sweeps = 0
  /\ \A q \in Callers \ {p} : log[q] = <<>> /\ caller[q].pc = "idle"

\* The first two operations of caller p were op, on the same name.
Twice(p, op) ==
  /\ Len(log[p]) >= 2
  /\ log[p][1].op = op
  /\ log[p][2].op = op
  /\ log[p][1].name = log[p][2].name

\* C1: when prepare() calls run concurrently, no prepare() ends in the error
\* of a create call that found the domain or an upstream repository already
\* created by another caller.
C1_RaceTolerated ==
  \A p \in Callers : \A j \in DOMAIN log[p] :
     ~ /\ log[p][j].op = "prepare"
       /\ log[p][j].result = CONFLICT
       /\ \/ log[p][j].at = "createDomain"
          \/ log[p][j].at = "createRepository" /\ log[p][j].step < SandboxStep

\* The numeric values of the collect-by tags among tags.
CollectByValues(tags) ==
  {Number(tags[j].value) : j \in {i \in DOMAIN tags : tags[i].key = COLLECT_BY_TAG}}

\* C2: the sweep issues deleteRepository for a repository it examines at
\* time `at` if and only if the repository carries a collect-by tag whose
\* numeric value T satisfies T < at; a repository with no collect-by tag is
\* kept, and a repository whose deleteRepository succeeded was such a one.
C2_TagExpiry ==
  \A j \in DOMAIN gc.seen :
     LET e == gc.seen[j]
         expired == \E T \in CollectByValues(e.tags) : ~T.nan /\ T.val < e.at
     IN /\ (e.outcome # "kept") <=> expired
        /\ CollectByValues(e.tags) = {} => e.outcome = "kept"

\* C2 witness: one sweep has deleted an expired repository and has kept both
\* a repository whose collect-by value is not below the sweep time and a
\* repository without the tag.
C2_Witness ==
  /\ gc.pc = "idle"
  /\ \E j \in DOMAIN gc.seen : gc.seen[j].outcome = "deleted"
  /\ \E j \in DOMAIN gc.seen :
        /\ gc.seen[j].outcome = "kept"
        /\ \E T \in CollectByValues(gc.seen[j].tags) : ~T.nan /\ T.val >= gc.seen[j].at
  /\ \E j \in DOMAIN gc.seen :
        /\ gc.seen[j].outcome = "kept"
        /\ gc.seen[j].key[2] \in Names
        /\ CollectByValues(gc.seen[j].tags) = {}

\* C3: a sweep in which a deleteRepository failed is not aborted: it ends
\* normally, after every repository of every page has been examined.
C3_SweepBestEffort ==
  (gc.pc = "idle" /\ \E j \in DOMAIN gc.seen : gc.seen[j].outcome \in Errors)
    => /\ gc.result = OK
       /\ gc.page.nextToken = 0
       /\ Len(gc.seen) = Len(gc.listed)

\* C4: prepare() twice in sequence for the same name, no other actor and no
\* failing call: both calls return normally, createRepository was issued for
\* the sandbox once (by the first call) when the name was free before and
\* not at all when it was taken, and the repository exists after the second
\* call.
C4_PrepareTwice ==
  \A p \in Callers :
     (Solo(p) /\ Twice(p, "prepare")) =>
        LET a == log[p][1]
            b == log[p][2]
        IN /\ a.result = OK /\ b.result = OK
           /\ a.created = ~a.found
           /\ b.found /\ ~b.created
           /\ (Len(log[p]) = 2 /\ caller[p].op = "none")
                 => repos[Key(a.name)].exists

\* C4 witness: a second prepare() has returned for a name the first created.
C4_Witness ==
  \E p \in Callers :
     /\ Solo(p) /\ Twice(p, "prepare")
     /\ Len(log[p]) = 2 /\ caller[p].op = "none"
     /\ log[p][1].created /\ log[p][2].result = OK
     /\ repos[Key(log[p][1].name)].by = p

\* The script of a block that fails k times and then succeeds.
FailsThenSucceeds(script, k) ==
  /\ k + 1 <= Len(script)
  /\ \A j \in 1..k : script[j] = FATAL
  /\ script[k + 1] = OK

\* C5: for a block that fails on every invocation, retry never invokes it
\* more than 4 times, sleeps once between two consecutive invocations, and
\* ends by throwing the error of the 4th invocation, after 4 invocations and
\* 3 sleeps.
C5_RetryExhausts ==
  (\A j \in DOMAIN rt.script : rt.script[j] = FATAL) =>
     /\ rt.invocations <= 4
     /\ rt.sleeps = (IF rt.pc = "done" THEN rt.invocations - 1 ELSE rt.invocations)
     /\ rt.pc = "done" =>
          /\ rt.result = "thrown"
          /\ rt.invocations = 4
          /\ rt.value = 4
          /\ rt.sleeps = 3

\* C5 witness: retry has thrown for a block that always fails.
C5_Witness ==
  /\ rt.pc = "done"
  /\ rt.result = "thrown"
  /\ rt.script # <<>>
  /\ \A j \in DOMAIN rt.script : rt.script[j] = FATAL

\* C6: for a block that fails k times (0 <= k <= 3) and then succeeds, retry
\* never invokes it more than k+1 times and ends by returning the value of
\* invocation k+1.
C6_RetrySucceeds ==
  \A k \in 0..3 :
     (rt.pc # "idle" /\ FailsThenSucceeds(rt.script, k)) =>
        /\ rt.invocations <= k + 1
        /\ rt.pc = "done" =>
             /\ rt.result = "returned"
             /\ rt.invocations = k + 1
             /\ rt.value = k + 1

\* C6 witness: fail, fail, succeed has returned after exactly 3 invocations.
C6_Witness ==
  /\ rt.pc = "done"
  /\ FailsThenSucceeds(rt.script, 2)
  /\ rt.result = "returned"
  /\ rt.invocations = 3

\* C7: delete() twice in sequence for the same name, no other actor and no
\* failing call: each call returns normally and leaves the repository
\* absent, and the second call finds no repository.
C7_DeleteTwice ==
  \A p \in Callers :
     /\ (Solo(p) /\ Len(log[p]) >= 1 /\ log[p][1].op = "delete") =>
          /\ log[p][1].result = OK
          /\ (Len(log[p]) = 1 /\ caller[p].op = "none")
                => ~repos[Key(log[p][1].name)].exists
     /\ (Solo(p) /\ Twice(p, "delete")) =>
          /\ log[p][2].result = OK
          /\ ~log[p][2].found
          /\ (Len(log[p]) = 2 /\ caller[p].op = "none")
                => ~repos[Key(log[p][2].name)].exists

\* C7 witness: the first delete() removed the repository, the second has
\* returned.
C7_Witness ==
  \E p \in Callers :
     /\ Solo(p) /\ Twice(p, "delete")
     /\ Len(log[p]) = 2 /\ caller[p].op = "none"
     /\ log[p][1].found
     /\ log[p][2].result = OK

\* C8: createRepository is pending only once the shared domain exists, the
\* createRepository of a sandbox only once the four upstreams exist, and a
\* sandbox that prepare() created has its domain and its four upstreams.
UpstreamsExist == \A u \in SandboxUpstreams : repos[Key(u)].exists
C8_Ordering ==
  /\ \A p \in Callers :
        /\ caller[p].pc = "createRepository" => DEFAULT_DOMAIN \in domains
        /\ (caller[p].pc = "createRepository" /\ caller[p].step = SandboxStep)
              => UpstreamsExist
  /\ \A n \in Names :
        (repos[Key(n)].exists /\ repos[Key(n)].by # "none") =>
           /\ DEFAULT_DOMAIN \in domains
           /\ repos[Key(n)].upstreams = SandboxUpstreams
           /\ UpstreamsExist

\* C8 witness: a sandbox exists whose domain was created by a prepare() and
\* whose four upstreams were all created by prepare() calls.
C8_Witness ==
  \E n \in Names :
     /\ repos[Key(n)].exists /\ repos[Key(n)].by # "none"
     /\ \A u \in SandboxUpstreams : repos[Key(u)].by # "none"

TwentyFourHours == 24 * 3600 * 1000

\* C9: a sandbox created by a prepare() that read the clock at t carries
\* collect-by = t + 24h; the sweep keeps it when it examines it at a time
\* now <= t + 24h and issues its deletion when now > t + 24h, which removes
\* it unless the registry fails the call (a fault, or ResourceNotFound for a
\* repository somebody else removed meanwhile).
C9_Lifetime ==
  /\ \A n \in Names :
        (repos[Key(n)].exists /\ repos[Key(n)].by # "none") =>
           CollectByValues(repos[Key(n)].tags) =
              {[nan |-> FALSE, val |-> repos[Key(n)].stamp + TwentyFourHours,
                whole |-> TRUE]}
  /\ \A j \in DOMAIN gc.seen :
        LET e == gc.seen[j]
        IN e.stamp >= 0 =>
             /\ e.at <= e.stamp + TwentyFourHours => e.outcome = "kept"
             /\ e.at > e.stamp + TwentyFourHours =>
                  \/ e.outcome \in {"pending", "deleted"}
                  \/ e.outcome = FATAL /\ faults > 0
                  \/ e.outcome = RNF

\* C9 witness: the sweep has deleted a sandbox that a prepare() created just
\* over 24h before.
C9_Witness ==
  \E j \in DOMAIN gc.seen :
     /\ gc.seen[j].stamp >= 0
     /\ gc.seen[j].at = gc.seen[j].stamp + TwentyFourHours + 1
     /\ gc.seen[j].outcome = "deleted"
     /\ ~repos[gc.seen[j].key].exists

\* C10: no step changes the tags of a repository that exists before and
\* after it, and a repository appears with a collect-by tag only by the
\* createRepository of a prepare() for that sandbox name.
C10_TagNeverRenewed ==
  [][\A k \in RepoKeys :
       /\ (repos[k].exists /\ repos'[k].exists) => repos'[k].tags = repos[k].tags
       /\ (~repos[k].exists /\ repos'[k].exists
             /\ CollectByValues(repos'[k].tags) # {}) =>
            \E p \in Callers :
               /\ caller[p].op = "prepare"
               /\ caller[p].pc = "createRepository"
               /\ caller[p].step = SandboxStep
               /\ k = Key(caller[p].name)]_vars

\* C10 witness: a prepare() has returned for a sandbox that existed, whose
\* collect-by tag is not the one that prepare() computed.
C10_Witness ==
  \E p \in Callers : \E j \in DOMAIN log[p] :
     LET e == log[p][j]
     IN /\ e.op = "prepare" /\ e.result = OK /\ e.found
        /\ repos[Key(e.name)].exists
        /\ CollectByValues(repos[Key(e.name)].tags) # {}
        /\ repos[Key(e.name)].tags # prepareTags(e.stamp)

\* C11: the sweep issues deleteRepository only for repositories of the
\* shared domain: a repository of another domain is never deleted by it,
\* whatever its collect-by tag.
C11_OnlySharedDomain ==
  \A j \in DOMAIN gc.seen :
     gc.seen[j].key[1] # DEFAULT_DOMAIN => gc.seen[j].outcome = "kept"

\* C12: a step of gc() whose describeDomain is answered not-found (the
\* domain is absent and the registry does not fail) ends the sweep at once:
\* gc() returns normally, having listed and examined nothing, and the
\* registry is as before.
C12_AbsentDomainNoOp ==
  [][(/\ gc.pc = "describeDomain"
      /\ gc' # gc
      /\ DEFAULT_DOMAIN \notin domains
      /\ faults' = faults)
       => /\ gc'.pc = "idle"
          /\ gc'.result = OK
          /\ gc'.listed = <<>>
          /\ gc'.seen = <<>>
          /\ gc'.sweeps = gc.sweeps
          /\ repos' = repos
          /\ domains' = domains]_vars

\* C12 witness: a sweep has returned normally and the domain is still absent.
C12_Witness ==
  /\ gc.pc = "idle"
  /\ gc.sweeps >= 1
  /\ gc.result = OK
  /\ gc.listed = <<>>
  /\ DEFAULT_DOMAIN \notin domains

\* The calls of prepare() that are not wrapped in retry().
NonRetried ==
  {"describeDomain", "createDomain", "describeRepository", "createRepository"}

\* Caller p's operation ends with this step.
Ends(p) == Len(log'[p]) = Len(log[p]) + 1 /\ caller'[p] = IdleCaller

\* The entry this step adds to the log of p.
Ended(p) == log'[p][Len(log'[p])]

\* The answer of the registry, by the state, to the call p has pending.
RealAnswer(c) ==
  CASE c.pc = "describeDomain" -> describeDomain(DEFAULT_DOMAIN)
    [] c.pc = "createDomain" -> createDomain(DEFAULT_DOMAIN)
    [] c.pc = "describeRepository" -> describeRepository(DEFAULT_DOMAIN, Target(c))
    [] c.pc = "createRepository" -> createRepository(DEFAULT_DOMAIN, Target(c))
    [] OTHER -> OK

\* C13: in prepare() only associateExternalConnection is retried, and it is
\* invoked at most 4 times: a failure with retries left leads to the sleep
\* and one retry fewer, a failure with none left ends prepare().  Any other
\* call is not issued again for the same ensure step, and when it fails
\* (not-found on a probe aside) prepare() ends in that step with that error,
\* no further call pending.
C13_OnlyAssociateRetried ==
  [][\A p \in Callers :
       LET c == caller[p]
           d == caller'[p]
       IN (c.op = "prepare" /\ d # c) =>
            /\ c.pc \in NonRetried =>
                 /\ ~(d.pc = c.pc /\ d.step = c.step)
                 /\ faults' # faults =>
                      Ends(p) /\ Ended(p).result = FATAL /\ Ended(p).at = c.pc
                 /\ (faults' = faults /\ RealAnswer(c) \in {CONFLICT, FATAL}) =>
                      /\ Ends(p)
                      /\ Ended(p).result = RealAnswer(c)
                      /\ Ended(p).at = c.pc
                 /\ (faults' = faults /\ RealAnswer(c) = RNF
                       /\ c.pc \in {"createDomain", "createRepository"}) =>
                      Ends(p) /\ Ended(p).result = RNF /\ Ended(p).at = c.pc
            /\ c.pc = "associateExternalConnection" =>
                 /\ c.attempts \in 0..3
                 /\ d.pc = "sleep" => c.attempts > 0 /\ d.attempts = c.attempts - 1
                 /\ (Ends(p) /\ Ended(p).result # OK) => c.attempts = 0
            /\ c.pc = "sleep" =>
                 d = [c EXCEPT !.pc = "associateExternalConnection"]]_vars

\* C13 witness: a prepare() has ended in the failure of a createRepository.
C13_Witness ==
  \E p \in Callers : \E j \in DOMAIN log[p] :
     /\ log[p][j].op = "prepare"
     /\ log[p][j].result = FATAL
     /\ log[p][j].at = "createRepository"

\* C14: a deleteRepository of delete() that fails otherwise than not-found
\* ends delete() with that very error, and the repositories are as before.
C14_DeleteSurfaces ==
  [][\A p \in Callers :
       (/\ caller[p].op = "delete"
        /\ caller'[p] # caller[p]
        /\ faults' # faults)
         => /\ Ends(p)
            /\ Ended(p).result = FATAL
            /\ Ended(p).at = "deleteRepository"
            /\ repos' = repos]_vars

\* C14 witness: a delete() has ended in the registry's failure and the
\* repository it was to delete exists.
C14_Witness ==
  \E p \in Callers : \E j \in DOMAIN log[p] :
     /\ log[p][j].op = "delete"
     /\ log[p][j].result = FATAL
     /\ repos[Key(log[p][j].name)].exists

\* C15: no step removes the shared domain or one of the four upstream
\* repositories: once there, they stay.
C15_SharedNeverDeleted ==
  [][/\ DEFAULT_DOMAIN \in domains => DEFAULT_DOMAIN \in domains'
     /\ \A u \in SandboxUpstreams :
          repos[Key(u)].exists => repos'[Key(u)].exists]_vars

\* C15 witness: a sweep that examined the npm upstream and deleted a
\* repository has returned, and the domain and the four upstreams exist.
C15_Witness ==
  /\ gc.pc = "idle"
  /\ gc.result = OK
  /\ \E j \in DOMAIN gc.seen : gc.seen[j].outcome = "deleted"
  /\ \E j \in DOMAIN gc.seen : gc.seen[j].key = Key(npmUpstream)
  /\ DEFAULT_DOMAIN \in domains
  /\ UpstreamsExist

\* C16: a probe of prepare() or gc() answered with success finds the
\* resource (no create follows), answered not-found finds it absent (the
\* create follows, or gc() returns), and answered with another failure ends
\* the operation with that failure, no create issued.
C16_Probes ==
  [][/\ \A p \in Callers :
          LET c == caller[p]
              d == caller'[p]
          IN (/\ c.op = "prepare"
              /\ c.pc \in {"describeDomain", "describeRepository"}
              /\ d # c)
               => IF faults' # faults
                  THEN Ends(p) /\ Ended(p).result = FATAL /\ Ended(p).at = c.pc
                  ELSE IF RealAnswer(c) = OK
                  THEN /\ d.pc \notin {"createDomain", "createRepository"}
                       /\ \/ d.pc = "describeRepository" /\ d.step = c.step + 1
                          \/ /\ Ends(p) /\ Ended(p).result = OK
                             /\ c.step = SandboxStep /\ Ended(p).found
                  ELSE /\ RealAnswer(c) = RNF
                       /\ d.step = c.step
                       /\ d.pc = (IF c.pc = "describeDomain" THEN "createDomain"
                                  ELSE "createRepository")
     /\ (gc.pc = "describeDomain" /\ gc' # gc)
          => IF faults' # faults
             THEN gc'.pc = "idle" /\ gc'.result = FATAL
             ELSE IF DEFAULT_DOMAIN \in domains
             THEN gc'.pc = "listRepositories"
             ELSE gc'.pc = "idle" /\ gc'.result = OK]_vars

\* C16 witness: a prepare() has ended in the failure of the probe of the
\* sandbox repository, which was not created.
C16_Witness ==
  \E p \in Callers : \E j \in DOMAIN log[p] :
     /\ log[p][j].op = "prepare"
     /\ log[p][j].result = FATAL
     /\ log[p][j].at = "describeRepository"
     /\ log[p][j].step = SandboxStep
     /\ ~log[p][j].created

\* C17: once a prepare() has returned normally, each of the four upstream
\* repositories exists and has its external connection.
C17_UpstreamsConnected ==
  \A p \in Callers : \A j \in DOMAIN log[p] :
     (log[p][j].op = "prepare" /\ log[p][j].result = OK)
       => \A u \in SandboxUpstreams :
             repos[Key(u)].exists /\ repos[Key(u)].external

\* C18: a sweep does not end in the not-found error of a repository that
\* was removed after it was listed.
C18_SweepToleratesRemoval ==
  ~(gc.pc = "idle" /\ gc.result = RNF)

\* C19: gc() alone, no call failing.  A sweep under way returns; and when it
\* has returned, it returned normally, the last page had no continuation
\* token, every repository listed was examined, once and in listing order,
\* no repository of the account was left unlisted, and no repository found
\* with a collect-by value below the clock read for it exists.
C19_SweepCompletes ==
  /\ [](gc.pc = "idle" /\ gc.sweeps >= 1 =>
          /\ gc.result = OK
          /\ gc.page.nextToken = 0
          /\ Len(gc.seen) = Len(gc.listed)
          /\ \A j \in DOMAIN gc.seen : gc.seen[j].key = gc.listed[j]
          /\ \A i, j \in DOMAIN gc.listed : i # j => gc.listed[i] # gc.listed[j]
          /\ DEFAULT_DOMAIN \in domains =>
               \A k \in RepoKeys :
                  repos[k].exists => \E j \in DOMAIN gc.listed : gc.listed[j] = k
          /\ \A j \in DOMAIN gc.seen :
               (\E T \in CollectByValues(gc.seen[j].tags) :
                   ~T.nan /\ T.val < gc.seen[j].at)
                 => ~repos[gc.seen[j].key].exists)
  /\ \A n \in 1..(MaxOps + 1) :
       (gc.sweeps = n /\ gc.pc # "idle") ~> (gc.sweeps = n /\ gc.pc = "idle")

\* C19 witness: a sweep of more than one page that deleted a repository and
\* kept another has returned.
C19_Witness ==
  /\ gc.pc = "idle"
  /\ gc.sweeps >= 1
  /\ gc.result = OK
  /\ Len(gc.listed) > PageSize
  /\ \E j \in DOMAIN gc.seen : gc.seen[j].outcome = "deleted"
  /\ \E j \in DOMAIN gc.seen : gc.seen[j].outcome = "kept"

====
